---- MODULE Spec2Model ----
(***************************************************************************)
(* A model of the pygame-platformer engine core: the entity engine         *)
(* (src/src/engine/engine.py), the action based input manager              *)
(* (src/src/engine/input.py) and the parts of the gamepad wrapper          *)
(* (src/src/engine/gamepad.py) the input manager reads.                    *)
(*                                                                         *)
(* There is one entity object of each entity class.  An operation that     *)
(* raises leaves the program state alone and sets err.                     *)
(***************************************************************************)
EXTENDS Integers, Sequences, FiniteSets, TLC

\* ------------------------------------------------------------ bounds
MaxEntities == 3

\* ------------------------------------------------------------ variables
VARIABLES
    initialized,      \* Engine._initialized
    entities,         \* Engine._entities
    display_layers,   \* Engine._display_layers : layer value -> list
    layer_indexes,    \* Engine._layer_indexes
    render_target,    \* Engine._render_target
    clock,            \* Engine._clock
    delta_time_raw,   \* Engine._delta_time_raw, in thousandths of a second
    time_scale,       \* Engine.time_scale
    markForRemove,    \* EntityBase.markForRemove of every entity object
    pc,               \* "idle", or "sweep" inside the loop of Engine.update
    idx,              \* position of the loop of Engine.update in the list
    calls,            \* the hooks the last engine operation dispatched
    lastOp,           \* the last operation called
    lastSilent,       \* the silent argument of the last removal
    err,              \* the last operation raised
    purgedEarlier,    \* entities marked for removal in an earlier frame
    added_since,      \* "init" or "remove_all" while only add_entity has changed
                      \* the collection since then, else "mixed"
    actions,          \* Input._actions : name -> _Action
    buffer_duration,  \* Input._buffer_duration, in thousandths of a second
    last_input_source,\* Input._last_input_source
    pg_joystick,      \* Input._gamepad._pg_joystick
    key_states,       \* pygame.key.get_pressed(): the key codes held down
    mouse_states,     \* pygame.mouse.get_pressed(3): the mouse buttons held down
    joy_buttons,      \* Joystick.get_button: the gamepad buttons held down
    joy_axis,         \* Joystick.get_axis(LEFT_STICK_X), in thousandths
    frame,            \* parity of the number of Input.update calls so far
    ever_buffered,    \* set_buffer_duration was called with a positive duration
    self_collider,    \* the RectCollider colliding is called on
    other_collider,   \* the RectCollider it is called with
    trans_vec,        \* the Vector2 passed as trans_vec
    intersecting,     \* the value the last colliding call returned
    stage,            \* how far the caller of colliding has come
    gamepads,         \* Gamepad._instance_list: of each instance, the instance ids
                      \* of the joystick in _pg_joystick (none when it is None)
    active_joystick_ids, \* Gamepad._active_joystick_ids
    plugged,          \* the joysticks plugged in, in device index order
    next_id,          \* the instance id the next joystick plugged in gets
    event,            \* the last event given to Gamepad.update_connected
    gp_err,           \* the last Gamepad.update_connected call raised
    dz_inner,         \* the inner argument of _apply_deadzone, in thousandths
    dz_outer,         \* the outer argument of _apply_deadzone, in thousandths
    dz_value,         \* the value argument of the last _apply_deadzone call
    dz_result,        \* what the last _apply_deadzone call returned
    dz_prev,          \* value and result of the call before the last
    position,         \* Player.position, in half pixels
    velocity,         \* Player.velocity, in pixels per second
    jumps_remaining,  \* Player.jumps_remaining
    jumps_before,     \* jumps_remaining when the last Player.update began
    jump_active,      \* what Input.active('jump') had to say in the last update
    stopped,          \* a collision of the last update zeroed velocity.y
    landed,           \* a collision of the last update pushed the player upward
    returned,         \* the list the last get_all, get_if or get_tagged returned
    aliased,          \* that list is the object Engine._entities
    asked,            \* the entities the predicate of that call is true for
    caller,           \* what the caller has done with the list: "none", "got", "changed"
    iterated,         \* the list object the loop of Engine.update iterates
    rebound,          \* Engine._entities is no longer that object
    began,            \* the flat list when the last Engine.update began
    hold_activations  \* per action: how often it became active in the current hold

engineVars == <<initialized, entities, display_layers, layer_indexes, render_target,
                clock, delta_time_raw, time_scale, markForRemove, pc, idx, calls,
                lastOp, lastSilent, err, purgedEarlier, added_since>>

inputVars == <<actions, buffer_duration, last_input_source, pg_joystick, key_states,
               mouse_states, joy_buttons, joy_axis, frame, ever_buffered>>

colliderVars == <<self_collider, other_collider, trans_vec, intersecting, stage>>

gamepadVars == <<gamepads, active_joystick_ids, plugged, next_id, event, gp_err>>

deadzoneVars == <<dz_inner, dz_outer, dz_value, dz_result, dz_prev>>

playerVars == <<position, velocity, jumps_remaining, jumps_before, jump_active,
                stopped, landed>>

queryVars == <<returned, aliased, asked, caller>>

sweepVars == <<iterated, rebound, began>>
holdVars == <<hold_activations>>

vars == <<engineVars, inputVars, colliderVars, gamepadVars, deadzoneVars, playerVars,
          queryVars, sweepVars, holdVars>>

\* the variables an operation of one class leaves alone
outsideEngine == <<inputVars, colliderVars, gamepadVars, deadzoneVars, playerVars,
                   queryVars, sweepVars, holdVars>>
outsideInput == <<engineVars, colliderVars, gamepadVars, deadzoneVars, playerVars,
                  queryVars, sweepVars, holdVars>>
outsideCollider == <<engineVars, inputVars, gamepadVars, deadzoneVars, playerVars,
                     queryVars, sweepVars, holdVars>>
outsideGamepad == <<engineVars, inputVars, colliderVars, deadzoneVars, playerVars,
                    queryVars, sweepVars, holdVars>>
outsideDeadzone == <<engineVars, inputVars, colliderVars, gamepadVars, playerVars,
                     queryVars, sweepVars, holdVars>>
outsideQuery == <<inputVars, colliderVars, gamepadVars, deadzoneVars, playerVars,
                  sweepVars, holdVars>>
outsideSweep == <<inputVars, colliderVars, gamepadVars, deadzoneVars, playerVars,
                  queryVars, holdVars>>
outsideHold == <<engineVars, colliderVars, gamepadVars, deadzoneVars, playerVars,
                 queryVars, sweepVars>>
outsidePlayer == <<engineVars, inputVars, colliderVars, gamepadVars, deadzoneVars,
                   queryVars, sweepVars, holdVars>>

\* ------------------------------------------------------------ entity classes
\* one entity object of each class: Player (layer 0), Wall (layer -5) and
\* TestEntity (layer 5)
Ents == {"Player", "Wall", "TestEntity"}
NoEntity == "nothing"

LayerOf(e) ==
    CASE e = "Wall" -> -5
      [] e = "TestEntity" -> 5
      [] OTHER -> 0

TagsOf(e) ==
    CASE e = "Player" -> {"PLAYER"}
      [] e = "Wall" -> {"WALL", "HAS_WALL_COLLISION"}
      [] OTHER -> {}

Tags == {"PLAYER", "WALL", "HAS_WALL_COLLISION", "USES_RAW_DELTA_TIME"}
Clocks == {"clockA", "clockB"}
Surfaces == {"screenA", "screenB"}
InitArgs == {<<"clockA", "screenA">>, <<"clockB", "screenB">>}
NoObject == "None"
\* Clock.get_time() in milliseconds
ClockTimes == {16, 33}

\* ------------------------------------------------------------ helpers
Range(s) == {s[i] : i \in 1..Len(s)}

Count(s, x) == Cardinality({i \in 1..Len(s) : s[i] = x})

RECURSIVE InsertSorted(_, _)
InsertSorted(s, x) ==
    IF s = <<>> THEN <<x>>
    ELSE IF x < Head(s) THEN <<x>> \o s
    ELSE <<Head(s)>> \o InsertSorted(Tail(s), x)

\* list.sort(): ascending
RECURSIVE SortAscending(_)
SortAscending(s) == IF s = <<>> THEN <<>> ELSE InsertSorted(SortAscending(Tail(s)), Head(s))

Hooks(method, s) == [i \in 1..Len(s) |-> <<method, s[i]>>]

Dispatched(method) ==
    LET picked == SelectSeq(calls, LAMBDA c : c[1] = method)
    IN  [i \in 1..Len(picked) |-> picked[i][2]]

\* ------------------------------------------------------------ Engine
Raise(op) ==
    /\ lastOp' = op
    /\ err' = TRUE
    /\ calls' = <<>>
    /\ lastSilent' = FALSE
    /\ UNCHANGED <<initialized, entities, display_layers, layer_indexes, render_target,
                   clock, delta_time_raw, time_scale, markForRemove, pc, idx,
                   purgedEarlier, added_since>>

Done(op, silent) ==
    /\ lastOp' = op
    /\ lastSilent' = silent
    /\ err' = FALSE
    /\ added_since' = CASE op = "remove_all" -> "remove_all"
                         [] op \in {"remove_if", "remove_tagged"} -> "mixed"
                         [] OTHER -> added_since

EngineInitUnchecked(c, rt) ==
    /\ pc = "idle"
    /\ clock' = c
    /\ render_target' = rt
    /\ initialized' = TRUE
    /\ calls' = <<>>
    /\ Done("init", FALSE)
    /\ UNCHANGED <<entities, display_layers, layer_indexes, delta_time_raw, time_scale,
                   markForRemove, pc, idx, purgedEarlier>>

EngineInit(c, rt) ==
    /\ pc = "idle"
    /\ IF initialized
       THEN Raise("init")
       ELSE /\ clock' = c
            /\ render_target' = rt
            /\ initialized' = TRUE
            /\ calls' = <<>>
            /\ Done("init", FALSE)
            /\ UNCHANGED <<entities, display_layers, layer_indexes, delta_time_raw,
                           time_scale, markForRemove, pc, idx, purgedEarlier>>

AddLayerUnsorted(indexes, layer) == Append(indexes, layer)

\* _layer_indexes.append(layer); _layer_indexes.sort()
AddLayer(indexes, layer) == SortAscending(Append(indexes, layer))

\* every add starts the bucket of the layer afresh
AddToLayersFreshBucket(layers, indexes, e) ==
    [l \in DOMAIN layers \cup {LayerOf(e)} |->
        IF l = LayerOf(e) THEN <<e>> ELSE layers[l]]

AddToLayers(layers, indexes, e) ==
    IF LayerOf(e) \in Range(indexes)
    THEN [layers EXCEPT ![LayerOf(e)] = Append(@, e)]
    ELSE [l \in DOMAIN layers \cup {LayerOf(e)} |->
            IF l = LayerOf(e) THEN <<e>> ELSE layers[l]]

EngineAddEntity(e, allow_setup) ==
    /\ pc = "idle"
    /\ IF ~initialized
       THEN Raise("add_entity")
       ELSE /\ Len(entities) < MaxEntities
            /\ entities' = Append(entities, e)
            /\ display_layers' = AddToLayers(display_layers, layer_indexes, e)
            /\ layer_indexes' = IF LayerOf(e) \in Range(layer_indexes)
                                THEN layer_indexes
                                ELSE AddLayer(layer_indexes, LayerOf(e))
            /\ calls' = IF allow_setup THEN <<<<"on_add", e>>>> ELSE <<>>
            \* an entity that is not in the engine is a newly constructed object
            /\ markForRemove' = IF e \in Range(entities)
                                THEN markForRemove
                                ELSE [markForRemove EXCEPT ![e] = FALSE]
            /\ purgedEarlier' = IF e \in Range(entities)
                                THEN purgedEarlier
                                ELSE purgedEarlier \ {e}
            /\ Done("add_entity", FALSE)
            /\ UNCHANGED <<initialized, render_target, clock, delta_time_raw,
                           time_scale, pc, idx>>

\* remove_if: the predicate is the set of entities it returns True for
RemoveIfEntities(ents, matching) == SelectSeq(ents, LAMBDA e : e \notin matching)

\* remove_if ignores silent: on_remove is called on every matching entity
RemoveIfHooks(ents, matching, silent) ==
    Hooks("on_remove", SelectSeq(ents, LAMBDA e : e \in matching))

RemoveIfLayersKept(layers, indexes, matching) == layers

RemoveIfLayers(layers, indexes, matching) ==
    [l \in DOMAIN layers |->
        IF l \in Range(indexes)
        THEN SelectSeq(layers[l], LAMBDA e : e \notin matching)
        ELSE layers[l]]

EngineRemoveIf(matching, silent) ==
    /\ pc = "idle"
    /\ IF ~initialized
       THEN Raise("remove_if")
       ELSE /\ entities' = RemoveIfEntities(entities, matching)
            /\ display_layers' = RemoveIfLayers(display_layers, layer_indexes, matching)
            /\ calls' = RemoveIfHooks(entities, matching, silent)
            /\ Done("remove_if", silent)
            /\ UNCHANGED <<initialized, layer_indexes, render_target, clock,
                           delta_time_raw, time_scale, markForRemove, pc, idx,
                           purgedEarlier>>

RemoveAllKeepsLayers(silent) ==
    /\ pc = "idle"
    /\ IF ~initialized
       THEN Raise("remove_all")
       ELSE /\ entities' = RemoveIfEntities(entities, Ents)
            /\ calls' = RemoveIfHooks(entities, Ents, silent)
            /\ display_layers' = RemoveIfLayers(display_layers, layer_indexes, Ents)
            /\ Done("remove_all", silent)
            /\ UNCHANGED <<initialized, layer_indexes, render_target, clock,
                           delta_time_raw, time_scale, markForRemove, pc, idx,
                           purgedEarlier>>

\* remove_all: remove_if for every entity, then the layer bookkeeping is reset
EngineRemoveAll(silent) ==
    /\ pc = "idle"
    /\ IF ~initialized
       THEN Raise("remove_all")
       ELSE /\ entities' = RemoveIfEntities(entities, Ents)
            /\ calls' = RemoveIfHooks(entities, Ents, silent)
            /\ display_layers' = <<>>
            /\ layer_indexes' = <<>>
            /\ Done("remove_all", silent)
            /\ UNCHANGED <<initialized, render_target, clock, delta_time_raw,
                           time_scale, markForRemove, pc, idx, purgedEarlier>>

Tagged(tag) == {e \in Ents : tag \in TagsOf(e)}

EngineRemoveTagged(tag, silent) ==
    /\ pc = "idle"
    /\ IF ~initialized
       THEN Raise("remove_tagged")
       ELSE /\ entities' = RemoveIfEntities(entities, Tagged(tag))
            /\ display_layers' = RemoveIfLayers(display_layers, layer_indexes, Tagged(tag))
            /\ calls' = RemoveIfHooks(entities, Tagged(tag), silent)
            /\ Done("remove_tagged", silent)
            /\ UNCHANGED <<initialized, layer_indexes, render_target, clock,
                           delta_time_raw, time_scale, markForRemove, pc, idx,
                           purgedEarlier>>

\* Engine.update up to the loop: the guard and the frame clock
EngineUpdateBegin(ms) ==
    /\ pc = "idle"
    /\ IF ~initialized
       THEN Raise("update")
       ELSE /\ delta_time_raw' = ms
            /\ pc' = "sweep"
            /\ idx' = 1
            /\ calls' = <<>>
            /\ purgedEarlier' = {e \in Ents : markForRemove[e]}
            /\ Done("update", FALSE)
            /\ UNCHANGED <<initialized, entities, display_layers, layer_indexes,
                           render_target, clock, time_scale, markForRemove>>

\* one turn of the loop without the markForRemove test: every entity is updated
UpdateStepNoSkip(target) ==
    /\ pc = "sweep"
    /\ idx <= Len(entities)
    /\ idx' = idx + 1
    /\ calls' = Append(calls, <<"update", entities[idx]>>)
    /\ markForRemove' = IF target = NoEntity
                        THEN markForRemove
                        ELSE [markForRemove EXCEPT ![target] = TRUE]
    /\ UNCHANGED <<initialized, entities, display_layers, layer_indexes, render_target,
                   clock, delta_time_raw, time_scale, pc, lastOp, lastSilent, err,
                   purgedEarlier, added_since>>

\* one turn of the loop: entity.update(dt) unless the entity is marked; the
\* update of an entity may set markForRemove on itself or on another entity
EngineUpdateStep(target) ==
    /\ pc = "sweep"
    /\ idx <= Len(entities)
    /\ idx' = idx + 1
    /\ IF markForRemove[entities[idx]]
       THEN /\ target = NoEntity
            /\ UNCHANGED <<calls, markForRemove>>
       ELSE /\ calls' = Append(calls, <<"update", entities[idx]>>)
            /\ markForRemove' = IF target = NoEntity
                                THEN markForRemove
                                ELSE [markForRemove EXCEPT ![target] = TRUE]
    /\ UNCHANGED <<initialized, entities, display_layers, layer_indexes, render_target,
                   clock, delta_time_raw, time_scale, pc, lastOp, lastSilent, err,
                   purgedEarlier, added_since>>

Marked == {e \in Ents : markForRemove[e]}

\* the end of Engine.update: remove_if(lambda e: e.markForRemove)
EngineUpdateEnd ==
    /\ pc = "sweep"
    /\ idx > Len(entities)
    /\ pc' = "idle"
    /\ idx' = 0
    /\ entities' = RemoveIfEntities(entities, Marked)
    /\ display_layers' = RemoveIfLayers(display_layers, layer_indexes, Marked)
    /\ calls' = calls \o RemoveIfHooks(entities, Marked, FALSE)
    /\ added_since' = IF Marked \cap Range(entities) = {} THEN added_since ELSE "mixed"
    /\ UNCHANGED <<initialized, layer_indexes, render_target, clock, delta_time_raw,
                   time_scale, markForRemove, lastOp, lastSilent, err, purgedEarlier>>

\* for i in _layer_indexes: for entity in _display_layers[i]
RECURSIVE RenderOrder(_, _)
RenderOrder(indexes, layers) ==
    IF indexes = <<>> THEN <<>>
    ELSE layers[Head(indexes)] \o RenderOrder(Tail(indexes), layers)

EngineRender ==
    /\ pc = "idle"
    /\ IF ~initialized
       THEN Raise("render")
       ELSE /\ calls' = Hooks("render", RenderOrder(layer_indexes, display_layers))
            /\ Done("render", FALSE)
            /\ UNCHANGED <<initialized, entities, display_layers, layer_indexes,
                           render_target, clock, delta_time_raw, time_scale,
                           markForRemove, pc, idx, purgedEarlier>>

\* get_all, get_if, get_tagged: guarded reads
EngineGet(op) ==
    /\ pc = "idle"
    /\ op \in {"get_all", "get_if", "get_tagged"}
    /\ IF ~initialized
       THEN Raise(op)
       ELSE /\ calls' = <<>>
            /\ Done(op, FALSE)
            /\ UNCHANGED <<initialized, entities, display_layers, layer_indexes,
                           render_target, clock, delta_time_raw, time_scale,
                           markForRemove, pc, idx, purgedEarlier>>

\* delta_time reads Engine._time_scale, an attribute the class does not have
EngineDeltaTime ==
    /\ pc = "idle"
    /\ Raise("delta_time")

\* delta_time_raw has no initialization guard
EngineDeltaTimeRaw ==
    /\ pc = "idle"
    /\ calls' = <<>>
    /\ Done("delta_time_raw", FALSE)
    /\ UNCHANGED <<initialized, entities, display_layers, layer_indexes, render_target,
                   clock, delta_time_raw, time_scale, markForRemove, pc, idx,
                   purgedEarlier>>

EngineInitState ==
    /\ initialized = FALSE
    /\ entities = <<>>
    /\ display_layers = <<>>
    /\ layer_indexes = <<>>
    /\ render_target = NoObject
    /\ clock = NoObject
    /\ delta_time_raw = 0
    /\ time_scale = 1
    /\ markForRemove = [e \in Ents |-> FALSE]
    /\ pc = "idle"
    /\ idx = 0
    /\ calls = <<>>
    /\ lastOp = "none"
    /\ lastSilent = FALSE
    /\ err = FALSE
    /\ purgedEarlier = {}
    /\ added_since = "init"

EngineNext ==
    \/ \E args \in InitArgs : EngineInit(args[1], args[2]) /\ UNCHANGED outsideEngine
    \/ \E e \in Ents, allow_setup \in BOOLEAN :
          EngineAddEntity(e, allow_setup) /\ UNCHANGED outsideEngine
    \/ \E matching \in SUBSET Ents, silent \in BOOLEAN :
          EngineRemoveIf(matching, silent) /\ UNCHANGED outsideEngine
    \/ \E silent \in BOOLEAN : EngineRemoveAll(silent) /\ UNCHANGED outsideEngine
    \/ \E tag \in Tags, silent \in BOOLEAN :
          EngineRemoveTagged(tag, silent) /\ UNCHANGED outsideEngine
    \/ \E ms \in ClockTimes : EngineUpdateBegin(ms) /\ UNCHANGED outsideEngine
    \/ \E target \in Range(entities) \cup {NoEntity} :
          EngineUpdateStep(target) /\ UNCHANGED outsideEngine
    \/ EngineUpdateEnd /\ UNCHANGED outsideEngine
    \/ EngineRender /\ UNCHANGED outsideEngine
    \/ \E op \in {"get_all", "get_if", "get_tagged"} : EngineGet(op) /\ UNCHANGED outsideEngine
    \/ EngineDeltaTime /\ UNCHANGED outsideEngine
    \/ EngineDeltaTimeRaw /\ UNCHANGED outsideEngine

\* ------------------------------------------------------------ Gamepad
\* fixed point: 1000 stands for 1.0
Unit == 1000
DeadzoneInner == 100
DeadzoneOuter == 50

GpButtons == {"A", "B"}
\* raw readings of the stick: centred, inside the inner deadzone, pushed
AxisSamples == {0, 50, 600}

Abs(x) == IF x < 0 THEN -x ELSE x

\* _apply_deadzone without the sign of the value on the scaled branch
DeadzoneUnsigned(value, inner, outer) ==
    LET far == Unit - outer
        magnitude == Abs(value)
        sign == IF value >= 0 THEN 1 ELSE -1
    IN  IF magnitude < inner THEN 0
        ELSE IF magnitude > far THEN sign * Unit
        ELSE ((magnitude - inner) * Unit) \div (far - inner)

\* _apply_deadzone; the quotient is cut to whole thousandths
ApplyDeadzone(value, inner, outer) ==
    LET far == Unit - outer
        magnitude == Abs(value)
        sign == IF value >= 0 THEN 1 ELSE -1
    IN  IF magnitude < inner THEN 0
        ELSE IF magnitude > far THEN sign * Unit
        ELSE sign * (((magnitude - inner) * Unit) \div (far - inner))

Connected == pg_joystick # NoObject

\* Gamepad.button_down for the plain buttons
ButtonDown(b) == IF pg_joystick = NoObject THEN FALSE ELSE b \in joy_buttons

\* Gamepad.axis_value(GpAxis.LEFT_STICK_X)
AxisValue == IF pg_joystick = NoObject THEN 0
             ELSE ApplyDeadzone(joy_axis, DeadzoneInner, DeadzoneOuter)

\* GpAxis and GpButton
GpAxes == {"LEFT_STICK_X", "LEFT_STICK_Y", "RIGHT_STICK_X", "RIGHT_STICK_Y",
           "LEFT_TRIGGER", "RIGHT_TRIGGER", "DPAD_X", "DPAD_Y"}
AllGpButtons == {"A", "B", "X", "Y", "LEFT_BUMPER", "RIGHT_BUMPER", "BACK", "START",
                 "LEFT_STICK_CLICK", "RIGHT_STICK_CLICK", "GUIDE", "LEFT_TRIGGER",
                 "RIGHT_TRIGGER", "LEFT_TRIGGER_FULL_PULL", "RIGHT_TRIGGER_FULL_PULL"}

\* Gamepad.axis_value for every axis; the joystick of the model reports joy_axis on
\* each of its axes and a hat at rest
AxisValueOf(axis, raw_value) ==
    IF pg_joystick = NoObject THEN 0
    ELSE IF axis \in {"DPAD_X", "DPAD_Y"} THEN 0
    ELSE IF axis \in {"LEFT_TRIGGER", "RIGHT_TRIGGER"} THEN joy_axis \div 2 + Unit \div 2
    ELSE IF raw_value THEN joy_axis
    ELSE ApplyDeadzone(joy_axis, DeadzoneInner, DeadzoneOuter)

\* Gamepad.button_down for every button
ButtonDownOf(button) ==
    IF pg_joystick = NoObject THEN FALSE
    ELSE IF button = "LEFT_TRIGGER" THEN 4 * AxisValueOf("LEFT_TRIGGER", FALSE) >= Unit
    ELSE IF button = "LEFT_TRIGGER_FULL_PULL"
         THEN 20 * AxisValueOf("LEFT_TRIGGER", FALSE) >= 19 * Unit
    ELSE IF button = "RIGHT_TRIGGER" THEN 4 * AxisValueOf("RIGHT_TRIGGER", FALSE) >= Unit
    ELSE IF button = "RIGHT_TRIGGER_FULL_PULL"
         THEN 20 * AxisValueOf("RIGHT_TRIGGER", FALSE) >= 19 * Unit
    ELSE button \in joy_buttons

\* Gamepad.button_pressed and Gamepad.pressed_buttons are called by Input but
\* gamepad.py defines neither: button_pressed reports what button_down reports,
\* pressed_buttons the buttons for which it is true
ButtonPressed(b) == ButtonDown(b)

PressedButtons == {b \in GpButtons : ButtonPressed(b)}

\* ------------------------------------------------------------ Input
MaxBuffer == 2
MaxDt == 2

ActionNames == {"jump"}
\* the keys and buttons arguments add_action is called with
KeyLists == {{}, {"a"}, {"a", "Enter"}, {"Enter", "left mouse"}}
ButtonLists == {{}, {"a"}, {"a", "b"}}
KeyCodes == {"K_a", "K_RETURN"}
MouseCodes == {0}
Modes == {"hold", "press"}

\* key.lower(), then _KEY_ALIASES
KeyAlias(key) ==
    CASE key = "Enter" -> "return"
      [] OTHER -> key

\* pygame.key.key_code
KeyCode(key) ==
    CASE key = "a" -> "K_a"
      [] key = "return" -> "K_RETURN"

IsMouseName(key) == key = "left mouse"

GamepadButton(button) ==
    CASE button = "a" -> "A"
      [] button = "b" -> "B"

\* _Action.__init__
NewAction(name, keys, buttons, mode, chord) ==
    [ key_codes |-> {KeyCode(KeyAlias(k)) : k \in {x \in keys : ~IsMouseName(x)}},
      mouse_codes |-> {0 : k \in {x \in keys : IsMouseName(x)}},
      gamepad_codes |-> {GamepadButton(b) : b \in buttons},
      mode |-> mode,
      chord |-> chord,
      active |-> FALSE,
      was_active |-> FALSE,
      buffer_remaining |-> 0,
      \* not attributes: the last keys_pressed of update, and whether active()
      \* has reset the buffer since the last update
      pressed |-> FALSE,
      queried |-> FALSE ]

KeysPressedAny(a, source) ==
    IF source = "gamepad"
    THEN \E b \in a.gamepad_codes : ButtonPressed(b)
    ELSE \/ \E k \in a.key_codes : k \in key_states
         \/ \E m \in a.mouse_codes : m \in mouse_states

\* _Action.update: keys_pressed
KeysPressed(a, source) ==
    IF a.chord
    THEN IF source = "gamepad"
         THEN \A b \in a.gamepad_codes : ButtonPressed(b)
         ELSE /\ \A k \in a.key_codes : k \in key_states
              /\ \A m \in a.mouse_codes : m \in mouse_states
    ELSE IF source = "gamepad"
         THEN \E b \in a.gamepad_codes : ButtonPressed(b)
         ELSE \/ \E k \in a.key_codes : k \in key_states
              \/ \E m \in a.mouse_codes : m \in mouse_states

HoldBuffered(a, pressed, dt) ==
    [a EXCEPT !.active = pressed \/ a.active]

\* _Action.update: mode 'hold'
HoldUpdate(a, pressed, dt) ==
    [a EXCEPT !.active = pressed]

PressRepeats(a, pressed, dt) ==
    [a EXCEPT !.active = pressed, !.was_active = pressed]

\* mode 'press' with a buffer that does not run down
PressBufferFrozen(a, pressed, dt) ==
    IF pressed
    THEN IF a.buffer_remaining > 0
         THEN [a EXCEPT !.active = TRUE]
         ELSE IF a.was_active
         THEN [a EXCEPT !.active = FALSE]
         ELSE [a EXCEPT !.active = TRUE, !.was_active = TRUE,
                        !.buffer_remaining = buffer_duration]
    ELSE [a EXCEPT !.active = FALSE, !.was_active = FALSE]

\* _Action.update: mode 'press'
PressUpdate(a, pressed, dt) ==
    IF pressed
    THEN IF a.buffer_remaining > 0
         THEN [a EXCEPT !.buffer_remaining = @ - dt, !.active = TRUE]
         ELSE IF a.was_active
         THEN [a EXCEPT !.active = FALSE]
         ELSE [a EXCEPT !.active = TRUE, !.was_active = TRUE,
                        !.buffer_remaining = buffer_duration]
    ELSE [a EXCEPT !.active = FALSE, !.was_active = FALSE]

ActionUpdate(a, source, dt) ==
    LET keys_pressed == KeysPressed(a, source)
        seen == [a EXCEPT !.pressed = keys_pressed, !.queried = FALSE]
    IN  IF a.mode = "hold"
        THEN HoldUpdate(seen, keys_pressed, dt)
        ELSE PressUpdate(seen, keys_pressed, dt)

SourceGamepadLast(previous) ==
    IF ~Connected THEN "keyboard"
    ELSE IF key_states # {} \/ mouse_states # {} THEN "keyboard"
    ELSE IF PressedButtons # {} THEN "gamepad"
    ELSE IF AxisValue # 0 THEN "gamepad"
    ELSE previous

SourceUnguarded(previous) ==
    IF PressedButtons # {} THEN "gamepad"
    ELSE IF AxisValue # 0 THEN "gamepad"
    ELSE IF key_states # {} \/ mouse_states # {} THEN "keyboard"
    ELSE previous

\* Input.update: the dominant input source
InputSource(previous) ==
    IF ~Connected THEN "keyboard"
    ELSE IF PressedButtons # {} THEN "gamepad"
    ELSE IF AxisValue # 0 THEN "gamepad"
    ELSE IF key_states # {} \/ mouse_states # {} THEN "keyboard"
    ELSE previous

InputUpdate(dt) ==
    /\ last_input_source' = InputSource(last_input_source)
    /\ actions' = [n \in DOMAIN actions |->
                      ActionUpdate(actions[n], InputSource(last_input_source), dt)]
    /\ frame' = 1 - frame
    /\ UNCHANGED <<buffer_duration, pg_joystick, key_states, mouse_states, joy_buttons,
                   joy_axis, ever_buffered>>

InputSetBufferDuration(duration) ==
    /\ buffer_duration' = duration
    /\ ever_buffered' = (ever_buffered \/ duration > 0)
    /\ UNCHANGED <<actions, last_input_source, pg_joystick, key_states, mouse_states,
                   joy_buttons, joy_axis, frame>>

\* the key names pygame.key.key_code knows and the names in _GAMEPAD_BUTTONS
KnownKeys == {"a", "return"}
KnownButtons == {"a", "b"}

\* add_action raises ValueError without bindings or for a registered name, and
\* _Action.__init__ raises it for a key or button name it cannot resolve
AddActionRaises(name, keys, buttons) ==
    \/ keys = {} /\ buttons = {}
    \/ name \in DOMAIN actions
    \/ \E k \in keys : ~IsMouseName(k) /\ KeyAlias(k) \notin KnownKeys
    \/ \E b \in buttons : b \notin KnownButtons

AddActionOverwrites(name, keys, buttons, mode, chord) ==
    IF (keys = {} /\ buttons = {})
       \/ (\E k \in keys : ~IsMouseName(k) /\ KeyAlias(k) \notin KnownKeys)
       \/ (\E b \in buttons : b \notin KnownButtons)
    THEN UNCHANGED inputVars
    ELSE /\ actions' = [n \in DOMAIN actions \cup {name} |->
                          IF n = name THEN NewAction(name, keys, buttons, mode, chord)
                          ELSE actions[n]]
         /\ UNCHANGED <<buffer_duration, last_input_source, pg_joystick, key_states,
                        mouse_states, joy_buttons, joy_axis,
                        frame, ever_buffered>>

InputAddAction(name, keys, buttons, mode, chord) ==
    IF AddActionRaises(name, keys, buttons)
    THEN UNCHANGED inputVars
    ELSE /\ actions' = [n \in DOMAIN actions \cup {name} |->
                          IF n = name THEN NewAction(name, keys, buttons, mode, chord)
                          ELSE actions[n]]
         /\ UNCHANGED <<buffer_duration, last_input_source, pg_joystick, key_states,
                        mouse_states, joy_buttons, joy_axis,
                        frame, ever_buffered>>

ActiveResetsAlways(name, reset_buffer) ==
    IF name \notin DOMAIN actions
    THEN UNCHANGED inputVars
    ELSE /\ actions' = [actions EXCEPT ![name].buffer_remaining = 0,
                                       ![name].active = FALSE]
         /\ UNCHANGED <<buffer_duration, last_input_source, pg_joystick, key_states,
                        mouse_states, joy_buttons, joy_axis,
                        frame, ever_buffered>>

\* Input.active raises KeyError for an unknown name, else returns action.active
InputActive(name, reset_buffer) ==
    IF name \notin DOMAIN actions
    THEN UNCHANGED inputVars
    ELSE /\ actions' = IF actions[name].active /\ reset_buffer
                       THEN [actions EXCEPT ![name].buffer_remaining = 0,
                                            ![name].queried = TRUE]
                       ELSE actions
         /\ UNCHANGED <<buffer_duration, last_input_source, pg_joystick, key_states,
                        mouse_states, joy_buttons, joy_axis,
                        frame, ever_buffered>>

ActiveResult(name) == actions[name].active

\* JOYDEVICEADDED handled by Input._gamepad
GamepadConnect ==
    /\ pg_joystick = NoObject
    /\ pg_joystick' = "joystick"
    /\ UNCHANGED <<actions, buffer_duration, last_input_source, key_states, mouse_states,
                   joy_buttons, joy_axis,
                   frame, ever_buffered>>

\* JOYDEVICEREMOVED handled by Input._gamepad; the device takes its state along
GamepadDisconnect ==
    /\ pg_joystick # NoObject
    /\ pg_joystick' = NoObject
    /\ joy_buttons' = {}
    /\ joy_axis' = 0
    /\ UNCHANGED <<actions, buffer_duration, last_input_source, key_states, mouse_states,
                   frame, ever_buffered>>

Toggle(set, x) == IF x \in set THEN set \ {x} ELSE set \cup {x}

\* the user presses or releases a key, a mouse button or a gamepad button, or
\* moves the stick
HardwareKey(k) ==
    /\ key_states' = Toggle(key_states, k)
    /\ UNCHANGED <<actions, buffer_duration, last_input_source, pg_joystick, mouse_states,
                   joy_buttons, joy_axis,
                   frame, ever_buffered>>

HardwareMouse(m) ==
    /\ mouse_states' = Toggle(mouse_states, m)
    /\ UNCHANGED <<actions, buffer_duration, last_input_source, pg_joystick, key_states,
                   joy_buttons, joy_axis,
                   frame, ever_buffered>>

HardwareButton(b) ==
    /\ pg_joystick # NoObject
    /\ joy_buttons' = Toggle(joy_buttons, b)
    /\ UNCHANGED <<actions, buffer_duration, last_input_source, pg_joystick, key_states,
                   mouse_states, joy_axis,
                   frame, ever_buffered>>

HardwareAxis(v) ==
    /\ pg_joystick # NoObject
    /\ joy_axis' = v
    /\ UNCHANGED <<actions, buffer_duration, last_input_source, pg_joystick, key_states,
                   mouse_states, joy_buttons,
                   frame, ever_buffered>>

InputInitState ==
    /\ actions = <<>>
    /\ buffer_duration = 0
    /\ last_input_source = "keyboard"
    /\ pg_joystick = NoObject
    /\ key_states = {}
    /\ mouse_states = {}
    /\ joy_buttons = {}
    /\ joy_axis = 0
    /\ frame = 0
    /\ ever_buffered = FALSE

\* every add_action call that raises leaves the same state: one stands for all
AddActionArgs(name) ==
    IF name \in DOMAIN actions
    THEN {<<{"a"}, {}, "hold", FALSE>>}
    ELSE {<<keys, buttons, mode, chord>> :
            keys \in KeyLists, buttons \in ButtonLists, mode \in Modes, chord \in BOOLEAN}
            \ {<<{}, {}, "press", c>> : c \in BOOLEAN}

InputNext ==
    \/ \E dt \in 1..MaxDt : InputUpdate(dt) /\ UNCHANGED outsideInput
    \/ \E duration \in 0..MaxBuffer :
          InputSetBufferDuration(duration) /\ UNCHANGED outsideInput
    \/ \E name \in ActionNames : \E args \in AddActionArgs(name) :
          InputAddAction(name, args[1], args[2], args[3], args[4]) /\ UNCHANGED outsideInput
    \/ \E name \in ActionNames, reset_buffer \in BOOLEAN :
          InputActive(name, reset_buffer) /\ UNCHANGED outsideInput
    \/ GamepadConnect /\ UNCHANGED outsideInput
    \/ GamepadDisconnect /\ UNCHANGED outsideInput
    \/ \E k \in KeyCodes : HardwareKey(k) /\ UNCHANGED outsideInput
    \/ \E m \in MouseCodes : HardwareMouse(m) /\ UNCHANGED outsideInput
    \/ \E b \in GpButtons : HardwareButton(b) /\ UNCHANGED outsideInput
    \/ \E v \in AxisSamples : HardwareAxis(v) /\ UNCHANGED outsideInput

\* ------------------------------------------------------------ Gamepad instances
MaxGamepads == 2
MaxPlugged == 2
MaxJoysticks == 4

\* an event that is neither JOYDEVICEADDED nor JOYDEVICEREMOVED
OtherEvent == [type |-> "other", device_index |-> 0, instance_id |-> 0, xbox |-> FALSE]

\* list.remove: the list without the first occurrence of x
RemoveFirst(list, x) ==
    LET at == CHOOSE i \in 1..Len(list) :
                 list[i] = x /\ \A j \in 1..(i - 1) : list[j] # x
    IN  [i \in 1..(Len(list) - 1) |-> IF i < at THEN list[i] ELSE list[i + 1]]

\* what _handle_event does to an instance and to the id list: handled is the value
\* returned, raised is set when list.remove raises ValueError
Unhandled(joystick, ids) ==
    [joystick |-> joystick, ids |-> ids, handled |-> FALSE, raised |-> FALSE]

HandleEventAnyRemoved(joystick, ids, ev) ==
    IF joystick = {} /\ ev.type = "added"
    THEN IF ev.device_index \notin Range(ids) /\ ev.xbox
         THEN [joystick |-> {ev.instance_id}, ids |-> Append(ids, ev.device_index),
               handled |-> TRUE, raised |-> FALSE]
         ELSE Unhandled(joystick, ids)
    ELSE IF joystick # {} /\ ev.type = "removed"
    THEN IF ev.instance_id \in Range(ids)
         THEN [joystick |-> {}, ids |-> RemoveFirst(ids, ev.instance_id),
               handled |-> TRUE, raised |-> FALSE]
         ELSE [joystick |-> {}, ids |-> ids, handled |-> FALSE, raised |-> TRUE]
    ELSE Unhandled(joystick, ids)

\* Gamepad._handle_event
HandleEvent(joystick, ids, ev) ==
    IF joystick = {} /\ ev.type = "added"
    THEN IF ev.device_index \notin Range(ids) /\ ev.xbox
         THEN [joystick |-> {ev.instance_id}, ids |-> Append(ids, ev.device_index),
               handled |-> TRUE, raised |-> FALSE]
         ELSE Unhandled(joystick, ids)
    ELSE IF joystick # {} /\ ev.type = "removed"
    THEN IF ev.instance_id \in joystick
         THEN IF ev.instance_id \in Range(ids)
              THEN [joystick |-> {}, ids |-> RemoveFirst(ids, ev.instance_id),
                    handled |-> TRUE, raised |-> FALSE]
              ELSE [joystick |-> {}, ids |-> ids, handled |-> FALSE, raised |-> TRUE]
         ELSE Unhandled(joystick, ids)
    ELSE Unhandled(joystick, ids)

\* the loop of Gamepad.update_connected from instance i on: it ends at the first
\* instance that handles the event, and when _handle_event raises
RECURSIVE Dispatch(_, _, _, _)
Dispatch(i, list, ids, ev) ==
    IF i > Len(list)
    THEN [gamepads |-> list, ids |-> ids, raised |-> FALSE]
    ELSE LET r == HandleEvent(list[i], ids, ev)
             after == [list EXCEPT ![i] = r.joystick]
         IN  IF r.raised \/ r.handled
             THEN [gamepads |-> after, ids |-> r.ids, raised |-> r.raised]
             ELSE Dispatch(i + 1, after, r.ids, ev)

\* Gamepad.update_connected(ev)
UpdateConnected(ev) ==
    LET r == IF ev.type \in {"added", "removed"}
             THEN Dispatch(1, gamepads, active_joystick_ids, ev)
             ELSE [gamepads |-> gamepads, ids |-> active_joystick_ids, raised |-> FALSE]
    IN  /\ gamepads' = r.gamepads
        /\ active_joystick_ids' = r.ids
        /\ gp_err' = r.raised
        /\ event' = ev

\* Gamepad(): a new instance, disconnected, at the end of the instance list
GamepadNew ==
    /\ Len(gamepads) < MaxGamepads
    /\ gamepads' = Append(gamepads, {})
    /\ UNCHANGED <<active_joystick_ids, plugged, next_id, event, gp_err>>

\* a joystick is plugged in: it gets the next instance id and the device index
\* after the joysticks already there, and JOYDEVICEADDED is dispatched
DeviceAdded(xbox) ==
    /\ Len(plugged) < MaxPlugged
    /\ next_id < MaxJoysticks
    /\ plugged' = Append(plugged, next_id)
    /\ next_id' = next_id + 1
    /\ UpdateConnected([type |-> "added", device_index |-> Len(plugged),
                        instance_id |-> next_id, xbox |-> xbox])

\* the joystick at a device index is unplugged and JOYDEVICEREMOVED is dispatched
DeviceRemoved(at) ==
    /\ at \in 1..Len(plugged)
    /\ plugged' = [i \in 1..(Len(plugged) - 1) |->
                      IF i < at THEN plugged[i] ELSE plugged[i + 1]]
    /\ UpdateConnected([type |-> "removed", device_index |-> 0,
                        instance_id |-> plugged[at], xbox |-> FALSE])
    /\ UNCHANGED next_id

\* any other event is dispatched
DeviceOther ==
    /\ UpdateConnected(OtherEvent)
    /\ UNCHANGED <<plugged, next_id>>

\* Input._gamepad is the one instance made when the modules are imported
GamepadInitState ==
    /\ gamepads = <<{}>>
    /\ active_joystick_ids = <<>>
    /\ plugged = <<>>
    /\ next_id = 0
    /\ event = OtherEvent
    /\ gp_err = FALSE

GamepadNext ==
    \/ GamepadNew /\ UNCHANGED outsideGamepad
    \/ \E xbox \in BOOLEAN : DeviceAdded(xbox) /\ UNCHANGED outsideGamepad
    \/ \E at \in 1..MaxPlugged : DeviceRemoved(at) /\ UNCHANGED outsideGamepad
    \/ DeviceOther /\ UNCHANGED outsideGamepad

\* ------------------------------------------------------------ specifications
\* no collider has been made
ColliderIdle ==
    /\ self_collider = NoObject
    /\ other_collider = NoObject
    /\ trans_vec = NoObject
    /\ intersecting = FALSE
    /\ stage = "none"

\* _apply_deadzone has not been called; the deadzones are those of Gamepad
DeadzoneIdle ==
    /\ dz_inner = DeadzoneInner
    /\ dz_outer = DeadzoneOuter
    /\ dz_value = 0
    /\ dz_result = 0
    /\ dz_prev = <<0, 0>>

\* ------------------------------------------------------------ Engine.update, nested
\* The loop of Engine.update with entities whose update calls the engine. The for
\* statement iterates one list object: add_entity appends to Engine._entities,
\* remove_if binds Engine._entities to a new list.
SweepIdle ==
    /\ iterated = <<>>
    /\ rebound = FALSE
    /\ began = <<>>

\* what the update of an entity calls: nothing, a markForRemove assignment,
\* remove_if, remove_tagged or add_entity, each with the entities it is about
NestedCalls ==
    {<<"none", {}>>}
      \cup {<<"mark", {e}>> : e \in Ents}
      \cup {<<"remove_if", matching>> : matching \in SUBSET Ents}
      \cup {<<"remove_tagged", Tagged(tag)>> : tag \in Tags}
      \cup {<<"add_entity", {e}>> : e \in Ents}

SweepBegin(ms) ==
    /\ EngineUpdateBegin(ms)
    /\ iterated' = IF initialized THEN entities ELSE iterated
    /\ rebound' = IF initialized THEN FALSE ELSE rebound
    /\ began' = IF initialized THEN entities ELSE began

\* one turn of the loop
SweepStep(kind, arg) ==
    LET entity == iterated[idx]
        removes == kind \in {"remove_if", "remove_tagged"}
        adds == kind = "add_entity"
        one == CHOOSE e \in arg : TRUE
    IN  /\ pc = "sweep"
        /\ idx <= Len(iterated)
        /\ markForRemove[entity] => kind = "none"
        /\ adds => Len(entities) < MaxEntities
        /\ idx' = idx + 1
        /\ calls' = IF markForRemove[entity] THEN calls
                    ELSE Append(calls, <<"update", entity>>)
                           \o (IF removes THEN RemoveIfHooks(entities, arg, FALSE)
                               ELSE IF adds THEN <<<<"on_add", one>>>>
                               ELSE <<>>)
        /\ entities' = IF removes THEN RemoveIfEntities(entities, arg)
                       ELSE IF adds THEN Append(entities, one)
                       ELSE entities
        /\ display_layers' =
              IF removes THEN RemoveIfLayers(display_layers, layer_indexes, arg)
              ELSE IF adds THEN AddToLayers(display_layers, layer_indexes, one)
              ELSE display_layers
        /\ layer_indexes' = IF adds /\ LayerOf(one) \notin Range(layer_indexes)
                            THEN AddLayer(layer_indexes, LayerOf(one))
                            ELSE layer_indexes
        /\ iterated' = IF adds /\ ~rebound THEN Append(iterated, one) ELSE iterated
        /\ rebound' = (rebound \/ removes)
        /\ markForRemove' =
              IF kind = "mark" THEN [markForRemove EXCEPT ![one] = TRUE]
              ELSE IF adds /\ one \notin Range(entities)
              THEN [markForRemove EXCEPT ![one] = FALSE]
              ELSE markForRemove
        /\ added_since' = IF removes THEN "mixed" ELSE added_since
        /\ UNCHANGED <<initialized, render_target, clock, delta_time_raw, time_scale,
                       pc, lastOp, lastSilent, err, purgedEarlier, began>>

\* the end of the loop and the purge
SweepEnd ==
    /\ pc = "sweep"
    /\ idx > Len(iterated)
    /\ pc' = "idle"
    /\ idx' = 0
    /\ entities' = RemoveIfEntities(entities, Marked)
    /\ display_layers' = RemoveIfLayers(display_layers, layer_indexes, Marked)
    /\ calls' = calls \o RemoveIfHooks(entities, Marked, FALSE)
    /\ added_since' = IF Marked \cap Range(entities) = {} THEN added_since ELSE "mixed"
    /\ UNCHANGED <<initialized, layer_indexes, render_target, clock, delta_time_raw,
                   time_scale, markForRemove, lastOp, lastSilent, err, purgedEarlier>>
    /\ UNCHANGED sweepVars

SweepNext ==
    \/ \E args \in InitArgs :
          EngineInit(args[1], args[2]) /\ UNCHANGED <<sweepVars, outsideSweep>>
    \/ \E e \in Ents :
          EngineAddEntity(e, TRUE) /\ UNCHANGED <<sweepVars, outsideSweep>>
    \/ \E ms \in ClockTimes : SweepBegin(ms) /\ UNCHANGED outsideSweep
    \/ \E nested \in NestedCalls : SweepStep(nested[1], nested[2]) /\ UNCHANGED outsideSweep
    \/ SweepEnd /\ UNCHANGED outsideSweep
    \/ EngineRender /\ UNCHANGED <<sweepVars, outsideSweep>>

\* ------------------------------------------------------------ Input, holds
\* The frames of Input together with a count, for every action, of the times it
\* went from inactive to active while its keyboard and mouse binding stayed down.
HoldIdle == hold_activations = [n \in ActionNames |-> 0]

\* what keys_pressed of _Action.update is for the keyboard source, for an action
\* that has a key or a mouse button bound
KeyboardHeld(a, keys, mouse) ==
    /\ (a.key_codes # {} \/ a.mouse_codes # {})
    /\ IF a.chord
       THEN a.key_codes \subseteq keys /\ a.mouse_codes \subseteq mouse
       ELSE a.key_codes \cap keys # {} \/ a.mouse_codes \cap mouse # {}

\* a key or mouse button changed: the hold of an action ends when its binding is
\* no longer down
HoldAfterHardware ==
    hold_activations' =
        [n \in ActionNames |->
            IF n \in DOMAIN actions /\ KeyboardHeld(actions[n], key_states', mouse_states')
            THEN hold_activations[n]
            ELSE 0]

\* Input.update ran: an action that went from inactive to active with its binding
\* down has activated once more in this hold
HoldAfterUpdate ==
    hold_activations' =
        [n \in ActionNames |->
            IF /\ n \in DOMAIN actions
               /\ KeyboardHeld(actions[n], key_states, mouse_states)
               /\ ~actions[n].active /\ actions'[n].active
               /\ hold_activations[n] < 2
            THEN hold_activations[n] + 1
            ELSE hold_activations[n]]

HoldNext ==
    \/ \E dt \in 1..MaxDt : InputUpdate(dt) /\ HoldAfterUpdate /\ UNCHANGED outsideHold
    \/ \E duration \in 0..MaxBuffer :
          InputSetBufferDuration(duration) /\ UNCHANGED <<holdVars, outsideHold>>
    \/ \E name \in ActionNames : \E args \in AddActionArgs(name) :
          /\ InputAddAction(name, args[1], args[2], args[3], args[4])
          /\ UNCHANGED <<holdVars, outsideHold>>
    \/ \E name \in ActionNames, reset_buffer \in BOOLEAN :
          InputActive(name, reset_buffer) /\ UNCHANGED <<holdVars, outsideHold>>
    \/ GamepadConnect /\ UNCHANGED <<holdVars, outsideHold>>
    \/ GamepadDisconnect /\ UNCHANGED <<holdVars, outsideHold>>
    \/ \E k \in KeyCodes : HardwareKey(k) /\ HoldAfterHardware /\ UNCHANGED outsideHold
    \/ \E m \in MouseCodes : HardwareMouse(m) /\ HoldAfterHardware /\ UNCHANGED outsideHold
    \/ \E b \in GpButtons : HardwareButton(b) /\ UNCHANGED <<holdVars, outsideHold>>
    \/ \E v \in AxisSamples : HardwareAxis(v) /\ UNCHANGED <<holdVars, outsideHold>>

\* ------------------------------------------------------------ Engine queries
\* no list has been returned
QueryIdle ==
    /\ returned = <<>>
    /\ aliased = FALSE
    /\ asked = {}
    /\ caller = "none"

\* the entities the predicate of a query is true for
QuerySets(op) ==
    CASE op = "get_all" -> {Ents}
      [] op = "get_tagged" -> {Tagged(tag) : tag \in Tags}
      [] OTHER -> SUBSET Ents

\* get_all returning Engine._entities itself
EngineQueryNoCopy(op, matching) ==
    /\ EngineGet(op)
    /\ asked' = matching
    /\ IF ~initialized
       THEN /\ caller' = "none"
            /\ UNCHANGED <<returned, aliased>>
       ELSE /\ returned' = SelectSeq(entities, LAMBDA e : e \in matching)
            /\ aliased' = (op = "get_all")
            /\ caller' = "got"

\* get_all, get_if, get_tagged with the list they return: _entities[::] and the
\* list comprehension of get_if are new lists
EngineQuery(op, matching) ==
    /\ EngineGet(op)
    /\ asked' = matching
    /\ IF ~initialized
       THEN /\ caller' = "none"
            /\ UNCHANGED <<returned, aliased>>
       ELSE /\ returned' = SelectSeq(entities, LAMBDA e : e \in matching)
            /\ aliased' = FALSE
            /\ caller' = "got"

\* list.append(e), list.pop(0) and list.reverse()
ChangedList(list, change, e) ==
    CASE change = "append" -> Append(list, e)
      [] change = "pop" -> Tail(list)
      [] OTHER -> [i \in 1..Len(list) |-> list[Len(list) + 1 - i]]

\* the caller changes the list it got; a list that is Engine._entities changes there
CallerChanges(change, e) ==
    /\ caller = "got"
    /\ change = "pop" => returned # <<>>
    /\ Len(returned) < MaxEntities + 1
    /\ returned' = ChangedList(returned, change, e)
    /\ entities' = IF aliased THEN ChangedList(returned, change, e) ELSE entities
    /\ caller' = "changed"
    /\ UNCHANGED <<initialized, display_layers, layer_indexes, render_target, clock,
                   delta_time_raw, time_scale, markForRemove, pc, idx, calls, lastOp,
                   lastSilent, err, purgedEarlier, added_since, aliased, asked>>

\* an operation of the engine that returns no list
NoQuery == caller' = "none" /\ UNCHANGED <<returned, aliased, asked>>

QueryNext ==
    \/ \E args \in InitArgs :
          EngineInit(args[1], args[2]) /\ NoQuery /\ UNCHANGED outsideQuery
    \/ \E e \in Ents, allow_setup \in BOOLEAN :
          EngineAddEntity(e, allow_setup) /\ NoQuery /\ UNCHANGED outsideQuery
    \/ \E op \in {"get_all", "get_if", "get_tagged"} : \E matching \in QuerySets(op) :
          EngineQuery(op, matching) /\ UNCHANGED outsideQuery
    \/ \E change \in {"append", "pop", "reverse"}, e \in Ents :
          CallerChanges(change, e) /\ UNCHANGED outsideQuery
    \/ EngineRender /\ NoQuery /\ UNCHANGED outsideQuery

\* Player: static configs, in pixels and pixels per second
SIZE == <<20, 32>>
MAX_FALL_SPEED == 900
MAX_RUN_SPEED == 300
JUMP_IMPULSE == 0 - 400
MAX_JUMPS == 2
GRAVITY == 600

\* Player(x, y), with the position in half pixels
PlayerNew(x, y) ==
    /\ position = <<x, y>>
    /\ velocity = <<0, 0>>
    /\ jumps_remaining = 0
    /\ jumps_before = 0
    /\ jump_active = FALSE
    /\ stopped = FALSE
    /\ landed = FALSE

\* a player that is not updated
PlayerIdle == PlayerNew(0, 0)

\* the state when the modules have been imported
Init ==
    /\ EngineInitState /\ InputInitState /\ ColliderIdle /\ GamepadInitState
    /\ DeadzoneIdle /\ PlayerIdle /\ QueryIdle
    /\ SweepIdle /\ HoldIdle

SpecEngine == Init /\ [][EngineNext]_vars

SpecQuery == Init /\ [][QueryNext]_vars

SpecSweep == Init /\ [][SweepNext]_vars

SpecHold == Init /\ [][HoldNext]_vars

SpecInput == Init /\ [][InputNext]_vars

SpecGamepad == Init /\ [][GamepadNext]_vars

\* ------------------------------------------------------------ the action registry
\* two action names, and the add_action calls made with them: keys, buttons, mode
\* and chord, some without bindings or with a name that cannot be resolved
RegistryNames == {"jump", "dash"}
RegistryCalls ==
    { <<{"a"}, {}, "press", FALSE>>,
      <<{"a"}, {"b"}, "hold", TRUE>>,
      <<{}, {"b"}, "hold", FALSE>>,
      <<{}, {}, "hold", FALSE>>,
      <<{"a"}, {"nobutton"}, "press", FALSE>>,
      <<{"nokey"}, {}, "hold", FALSE>> }

\* observed operations of Input: lastOp and err record the call and whether it
\* raised
Observed(op, raised) ==
    /\ lastOp' = op
    /\ err' = raised
    /\ UNCHANGED <<initialized, entities, display_layers, layer_indexes, render_target,
                   clock, delta_time_raw, time_scale, markForRemove, pc, idx, calls,
                   lastSilent, purgedEarlier, added_since>>
    /\ UNCHANGED <<colliderVars, gamepadVars, deadzoneVars, playerVars, queryVars,
                   sweepVars, holdVars>>

RegistryAddAction(name, keys, buttons, mode, chord) ==
    /\ InputAddAction(name, keys, buttons, mode, chord)
    /\ Observed("add_action", AddActionRaises(name, keys, buttons))

RegistryNext ==
    \/ \E name \in RegistryNames, c \in RegistryCalls :
          RegistryAddAction(name, c[1], c[2], c[3], c[4])
    \/ \E dt \in 1..MaxDt : InputUpdate(dt) /\ Observed("update", FALSE)
    \/ \E duration \in {0, MaxBuffer} :
          InputSetBufferDuration(duration) /\ Observed("set_buffer_duration", FALSE)
    \/ HardwareKey("K_a") /\ UNCHANGED outsideInput

SpecRegistry == Init /\ [][RegistryNext]_vars

\* ------------------------------------------------------------ RectCollider
\* Lengths are whole numbers of half pixels; positions and sizes of colliders are
\* whole pixels, so that width / 2 and height / 2 are exact.
MaxCoord == 2
MaxSize == 2

Rects == [x : {2 * i : i \in 0..MaxCoord}, y : {2 * i : i \in 0..MaxCoord},
          width : {2 * i : i \in 1..MaxSize}, height : {2 * i : i \in 1..MaxSize}]

IntersectingStrict(a, b) ==
    ~ ( \/ a.x >= b.x + b.width \/ a.x + a.width <= b.x
        \/ a.y >= b.y + b.height \/ a.y + a.height <= b.y )

\* RectCollider.colliding: intersecting
Intersecting(a, b) ==
    ~ ( \/ a.x > b.x + b.width \/ a.x + a.width < b.x
        \/ a.y > b.y + b.height \/ a.y + a.height < b.y )

\* the vector with a tie of the two overlaps resolved along y
PushOutTieToY(a, b) ==
    LET self_cx == a.x + a.width \div 2
        self_cy == a.y + a.height \div 2
        other_cx == b.x + b.width \div 2
        other_cy == b.y + b.height \div 2
        dx == other_cx - self_cx
        dy == other_cy - self_cy
        x_range == a.width \div 2 + b.width \div 2
        y_range == a.height \div 2 + b.height \div 2
        mx == x_range - Abs(dx)
        my == y_range - Abs(dy)
    IN  IF mx < my
        THEN IF dx < 0 THEN <<mx, 0>> ELSE <<-mx, 0>>
        ELSE IF dy < 0 THEN <<0, my>> ELSE <<0, -my>>

\* RectCollider.colliding: the vector written for an intersecting pair
PushOut(a, b) ==
    LET self_cx == a.x + a.width \div 2
        self_cy == a.y + a.height \div 2
        other_cx == b.x + b.width \div 2
        other_cy == b.y + b.height \div 2
        dx == other_cx - self_cx
        dy == other_cy - self_cy
        x_range == a.width \div 2 + b.width \div 2
        y_range == a.height \div 2 + b.height \div 2
        mx == x_range - Abs(dx)
        my == y_range - Abs(dy)
    IN  IF mx <= my
        THEN IF dx < 0 THEN <<mx, 0>> ELSE <<-mx, 0>>
        ELSE IF dy < 0 THEN <<0, my>> ELSE <<0, -my>>

\* self.colliding(other, trans_vec)
Colliding ==
    /\ stage = "made"
    /\ intersecting' = Intersecting(self_collider, other_collider)
    /\ trans_vec' = IF Intersecting(self_collider, other_collider)
                    THEN PushOut(self_collider, other_collider)
                    ELSE <<0, 0>>
    /\ stage' = "resolved"
    /\ UNCHANGED <<self_collider, other_collider>>

\* the caller moves the collider by the vector it got, as Player.update does
Translate ==
    /\ stage = "resolved"
    /\ intersecting
    /\ self_collider' = [self_collider EXCEPT !.x = @ + trans_vec[1],
                                              !.y = @ + trans_vec[2]]
    /\ stage' = "moved"
    /\ UNCHANGED <<other_collider, trans_vec, intersecting>>

\* self.colliding(other) without a vector
CollidingPlain ==
    /\ stage = "moved"
    /\ intersecting' = Intersecting(self_collider, other_collider)
    /\ stage' = "checked"
    /\ UNCHANGED <<self_collider, other_collider, trans_vec>>

\* two colliders have been made and a vector to pass
ColliderInitState ==
    /\ self_collider \in Rects
    /\ other_collider \in Rects
    /\ trans_vec \in {<<0, 0>>, <<1, 1>>}
    /\ intersecting = FALSE
    /\ stage = "made"

ColliderNext ==
    \/ Colliding /\ UNCHANGED outsideCollider
    \/ Translate /\ UNCHANGED outsideCollider
    \/ CollidingPlain /\ UNCHANGED outsideCollider

InitCollider ==
    /\ EngineInitState /\ InputInitState /\ ColliderInitState /\ GamepadInitState
    /\ DeadzoneIdle /\ PlayerIdle /\ QueryIdle
    /\ SweepIdle /\ HoldIdle

SpecCollider == InitCollider /\ [][ColliderNext]_vars

\* ------------------------------------------------------------ _apply_deadzone
\* Values and deadzones are thousandths on a grid of GridSteps steps to each side
\* of 0, with the deadzones of Gamepad and the values at their thresholds added.
GridSteps == 4

Grid == {k * (Unit \div GridSteps) : k \in (0 - GridSteps)..GridSteps}

DeadzoneValues ==
    Grid \cup {s * t : s \in {-1, 1}, t \in {DeadzoneInner, Unit - DeadzoneOuter}}

\* the pairs of deadzones with 0 <= inner < 1 - outer
DeadzonePairs ==
    {p \in (Grid \cup {DeadzoneInner}) \X (Grid \cup {DeadzoneOuter}) :
        0 <= p[1] /\ p[1] < Unit - p[2]}

\* _apply_deadzone(value, inner, outer) with the deadzones of the state
DeadzoneApply(value) ==
    /\ dz_prev' = <<dz_value, dz_result>>
    /\ dz_value' = value
    /\ dz_result' = ApplyDeadzone(value, dz_inner, dz_outer)
    /\ UNCHANGED <<dz_inner, dz_outer>>

\* a first call with some deadzones and some value
DeadzoneInitState ==
    /\ \E p \in DeadzonePairs : dz_inner = p[1] /\ dz_outer = p[2]
    /\ dz_value \in DeadzoneValues
    /\ dz_result = ApplyDeadzone(dz_value, dz_inner, dz_outer)
    /\ dz_prev = <<dz_value, dz_result>>

DeadzoneNext ==
    \E value \in DeadzoneValues : DeadzoneApply(value) /\ UNCHANGED outsideDeadzone

InitDeadzone ==
    /\ EngineInitState /\ InputInitState /\ ColliderIdle /\ GamepadInitState
    /\ DeadzoneInitState /\ PlayerIdle /\ QueryIdle
    /\ SweepIdle /\ HoldIdle

SpecDeadzone == InitDeadzone /\ [][DeadzoneNext]_vars

\* ------------------------------------------------------------ Player
\* Lengths are half pixels, speeds pixels per second and frame times ticks of
\* 1 / TicksPerSecond seconds, so that a speed times a frame time is a whole
\* number of half pixels.
TicksPerSecond == 20
MaxTicks == 1
MaxRise == 150

\* the colliders of the entities tagged HAS_WALL_COLLISION, in the order they were
\* added to the engine: a floor and a ledge that stands on it
SceneWalls ==
    << [x |-> 0 - 200, y |-> 0, width |-> 600, height |-> 40],
       [x |-> 80, y |-> 0 - 60, width |-> 200, height |-> 60] >>

\* the places the player is constructed at: above the floor, and on it
PlayerStarts == {<<0, 0 - 64>>, <<30, 0 - 32>>}

\* the part of the scene the player is followed in
InScene(pos) ==
    /\ pos[1] >= 0 /\ pos[1] <= 150
    /\ pos[2] >= 0 - MaxRise

Min(a, b) == IF a <= b THEN a ELSE b

\* velocity * dt, in half pixels
Travel(v, dt) == (2 * v * dt) \div TicksPerSecond

\* Player.collider at a position
PlayerCollider(pos) ==
    [x |-> pos[1] - SIZE[1], y |-> pos[2] - SIZE[2],
     width |-> 2 * SIZE[1], height |-> 2 * SIZE[2]]

\* the collision response with jumps_remaining set back whenever velocity.y is zeroed
ResolveWallAnyRefill(body, wall) ==
    LET collider == PlayerCollider(body.position)
        tv == PushOut(collider, wall)
        moved == [body EXCEPT !.position = <<@[1] + tv[1], @[2] + tv[2]>>]
    IN  IF ~Intersecting(collider, wall) THEN body
        ELSE IF tv[1] # 0 THEN [moved EXCEPT !.velocity = <<0, @[2]>>]
        ELSE [moved EXCEPT !.velocity = <<@[1], 0>>,
                           !.stopped = TRUE,
                           !.jumps_remaining = MAX_JUMPS,
                           !.landed = @ \/ tv[2] < 0]

\* the collision response to one wall
ResolveWall(body, wall) ==
    LET collider == PlayerCollider(body.position)
        tv == PushOut(collider, wall)
        moved == [body EXCEPT !.position = <<@[1] + tv[1], @[2] + tv[2]>>]
    IN  IF ~Intersecting(collider, wall) THEN body
        ELSE IF tv[1] # 0 THEN [moved EXCEPT !.velocity = <<0, @[2]>>]
        ELSE [moved EXCEPT !.velocity = <<@[1], 0>>,
                           !.stopped = TRUE,
                           !.jumps_remaining = IF tv[2] < 0 THEN MAX_JUMPS ELSE @,
                           !.landed = @ \/ tv[2] < 0]

\* for wall in walls
RECURSIVE ResolveWalls(_, _)
ResolveWalls(body, walls) ==
    IF walls = <<>> THEN body
    ELSE ResolveWalls(ResolveWall(body, Head(walls)), Tail(walls))

\* Player.update(dt); move_dir and jump are what the stick and Input.active
\* report in this frame
PlayerUpdate(dt, move_dir, jump) ==
    LET jumping == jumps_remaining > 0 /\ jump
        vx == MAX_RUN_SPEED * move_dir
        vy == IF jumping
              THEN JUMP_IMPULSE
              ELSE Min(velocity[2] + (GRAVITY * dt) \div TicksPerSecond, MAX_FALL_SPEED)
        body == ResolveWalls(
                    [position |-> <<position[1] + Travel(vx, dt),
                                    position[2] + Travel(vy, dt)>>,
                     velocity |-> <<vx, vy>>,
                     jumps_remaining |-> IF jumping THEN jumps_remaining - 1
                                         ELSE jumps_remaining,
                     stopped |-> FALSE,
                     landed |-> FALSE],
                    SceneWalls)
    IN  /\ InScene(body.position)
        /\ position' = body.position
        /\ velocity' = body.velocity
        /\ jumps_remaining' = body.jumps_remaining
        /\ jumps_before' = jumps_remaining
        /\ jump_active' = jump
        /\ stopped' = body.stopped
        /\ landed' = body.landed

PlayerInitState == \E start \in PlayerStarts : PlayerNew(start[1], start[2])

PlayerNext ==
    \E dt \in 0..MaxTicks, move_dir \in {-1, 0, 1}, jump \in BOOLEAN :
        PlayerUpdate(dt, move_dir, jump) /\ UNCHANGED outsidePlayer

InitPlayer ==
    /\ EngineInitState /\ InputInitState /\ ColliderIdle /\ GamepadInitState
    /\ DeadzoneIdle /\ PlayerInitState /\ QueryIdle
    /\ SweepIdle /\ HoldIdle

SpecPlayer == InitPlayer /\ [][PlayerNext]_vars

\* ------------------------------------------------------------ Engine: properties
InNoBucket(e) == \A l \in DOMAIN display_layers : e \notin Range(display_layers[l])

RECURSIVE ByLayer(_, _)
ByLayer(ents, layerSet) ==
    IF layerSet = {} THEN <<>>
    ELSE LET lowest == CHOOSE l \in layerSet : \A k \in layerSet : l <= k
         IN  SelectSeq(ents, LAMBDA e : LayerOf(e) = lowest)
                \o ByLayer(ents, layerSet \ {lowest})

RemoveOps == {"remove_if", "remove_all", "remove_tagged"}

\* C1: an entity marked for removal during a frame does not disturb the frame of
\* the others: when Engine.update returns, every entity that is not marked got one
\* update per occurrence in the list and no marked entity is left in the list or in
\* a bucket; Engine.render dispatches one render per occurrence of every entity
\* of the list; and an entity marked in an earlier frame gets no update and no
\* render.
C1_MarkedRemovalKeepsFrame ==
    /\ (pc = "idle" /\ lastOp = "update" /\ ~err) =>
          /\ \A e \in Ents : ~markForRemove[e] =>
                Count(Dispatched("update"), e) = Count(entities, e)
          /\ \A e \in Marked : e \notin Range(entities) /\ InNoBucket(e)
    /\ (lastOp = "render" /\ ~err) =>
          \A e \in Ents : Count(Dispatched("render"), e) = Count(entities, e)
    /\ \A e \in purgedEarlier :
          e \notin Range(Dispatched("update")) /\ e \notin Range(Dispatched("render"))

\* C1 witness: a render after a frame in which an entity was marked and purged
\* while other entities stayed in the engine.
C1_Witness ==
    /\ pc = "idle" /\ lastOp = "render" /\ ~err
    /\ Marked \ purgedEarlier # {}
    /\ Len(entities) >= 2

C3_UninitializedFails ==
    (~initialized /\ lastOp # "none") =>
        /\ err
        /\ entities = <<>>
        /\ DOMAIN display_layers = {}
        /\ layer_indexes = <<>>

\* C4: Engine.init succeeds on its first call only; a later call raises and
\* leaves the clock, the render target, the initialized flag and the entity
\* bookkeeping as they were.
C4_InitOnlyOnce ==
    [][/\ (initialized /\ lastOp' = "init") =>
            /\ err'
            /\ UNCHANGED <<clock, render_target, initialized, entities, display_layers,
                           layer_indexes, markForRemove>>
       /\ (~initialized /\ lastOp' = "init") =>
            /\ ~err'
            /\ initialized'
            /\ clock' \in Clocks /\ render_target' \in Surfaces]_vars

\* C4 witness: a second init was refused while entities were in the engine.
C4_Witness ==
    /\ initialized /\ lastOp = "init" /\ err
    /\ entities # <<>>

\* C5: the removal operations take every matching entity out of the flat list and
\* out of the buckets, call on_remove on the removed entities when silent is false
\* and call on_remove on no entity when silent is true.
C5_RemovalHooks ==
    (lastOp \in RemoveOps /\ ~err) =>
        /\ lastSilent => calls = <<>>
        /\ \A i \in 1..Len(calls) :
              /\ calls[i][1] = "on_remove"
              /\ calls[i][2] \notin Range(entities)
              /\ InNoBucket(calls[i][2])
        /\ lastOp = "remove_all" => entities = <<>>

\* ---------------------------------------------------------------------------
\* Properties of Input
\* ---------------------------------------------------------------------------

\* the bindings an action has for an input source
BindingsFor(a, source) ==
    IF source = "gamepad"
    THEN {<<"button", b>> : b \in a.gamepad_codes}
    ELSE {<<"key", k>> : k \in a.key_codes} \cup {<<"mouse", m>> : m \in a.mouse_codes}

\* the inputs of a source that the hardware reports down
DownFor(source) ==
    IF source = "gamepad"
    THEN {<<"button", b>> : b \in {x \in GpButtons : ButtonDown(x)}}
    ELSE {<<"key", k>> : k \in key_states} \cup {<<"mouse", m>> : m \in mouse_states}

\* a step of Input.update; the hardware state is the same before and after it
UpdateStep == frame' # frame

\* a call of Input.active that changed something
QueryStep ==
    /\ frame' = frame
    /\ DOMAIN actions' = DOMAIN actions
    /\ actions' # actions

\* C6: after every Input.update a hold-mode non-chord action is active exactly when
\* at least one of its bindings for the dominant input source is down in that frame,
\* whatever dt, the buffer duration and the earlier frames were.
C6_HoldFollowsBindings ==
    [][UpdateStep =>
         \A n \in DOMAIN actions' :
            LET a == actions'[n]
                source == last_input_source'
            IN  (a.mode = "hold" /\ ~a.chord) =>
                   (a.active <=> BindingsFor(a, source) \cap DownFor(source) # {})]_vars

\* C6 witness: a hold-mode non-chord action with two bindings for the dominant
\* source is active with one of them down and the other up, with a buffer duration
\* set.
C6_Witness ==
    \E n \in DOMAIN actions :
       LET a == actions[n]
           bound == BindingsFor(a, last_input_source)
       IN  /\ a.mode = "hold" /\ ~a.chord /\ a.active
           /\ Cardinality(bound) = 2
           /\ Cardinality(bound \cap DownFor(last_input_source)) = 1
           /\ buffer_duration > 0

C8_ChordAllElseAny ==
    [][UpdateStep =>
         \A n \in DOMAIN actions' :
            LET a == actions'[n]
                bound == BindingsFor(a, last_input_source')
                down == DownFor(last_input_source')
            IN  IF a.chord
                THEN /\ a.pressed => bound \subseteq down
                     /\ (bound # {} /\ bound \subseteq down) => a.pressed
                ELSE a.pressed <=> (bound \cap down # {})]_vars

\* C8 witness: a chorded action with two bindings for the dominant source counted
\* as pressed.
C8_Witness ==
    \E n \in DOMAIN actions :
       /\ actions[n].chord /\ actions[n].pressed
       /\ Cardinality(BindingsFor(actions[n], last_input_source)) = 2

\* the dominant source by activity, given the source of the previous update
SourceByActivity(previous) ==
    LET gamepadUsed == joy_buttons # {} \/ AxisValue # 0
        keyboardUsed == key_states # {} \/ mouse_states # {}
    IN  CASE ~Connected -> "keyboard"
          [] Connected /\ gamepadUsed -> "gamepad"
          [] Connected /\ ~gamepadUsed /\ keyboardUsed -> "keyboard"
          [] OTHER -> previous

\* C9: after every Input.update the dominant source is keyboard when no gamepad is
\* connected, else gamepad when a gamepad button is down or the axis value is not
\* zero, else keyboard when a key or mouse button is down, else the source that the
\* previous update left.
C9_SourcePriority ==
    [][UpdateStep => last_input_source' = SourceByActivity(last_input_source)]_vars

\* C9 witness: the gamepad is the dominant source while a gamepad button and a
\* keyboard key are down.
C9_Witness ==
    /\ last_input_source = "gamepad"
    /\ Connected /\ joy_buttons # {} /\ key_states # {}
    /\ \E n \in DOMAIN actions : actions[n].pressed

\* C10: Input.active never changes the active flag, changes nothing when the action
\* is inactive or reset_buffer is false, sets the remaining buffer to 0 otherwise,
\* and a press-mode action whose buffer it has reset is inactive after the next
\* Input.update when its binding is still held.
C10_ActiveQuery ==
    [][/\ QueryStep =>
            \A n \in DOMAIN actions :
               /\ actions'[n].active = actions[n].active
               /\ actions'[n] # actions[n] =>
                     /\ actions[n].active
                     /\ actions'[n] = [actions[n] EXCEPT !.buffer_remaining = 0,
                                                         !.queried = TRUE]
       /\ UpdateStep =>
            \A n \in DOMAIN actions :
               (/\ actions[n].mode = "press" /\ actions[n].queried
                /\ BindingsFor(actions[n], last_input_source') # {}
                /\ actions'[n].pressed)
                  => ~actions'[n].active]_vars

\* ---------------------------------------------------------------------------
\* Properties of the action registry
\* ---------------------------------------------------------------------------

\* C11: add_action raises when the name is registered, when keys and buttons are
\* both empty and when a gamepad button name is unknown, and a call that raises
\* leaves the whole registry as it was: the same names, each with its bindings,
\* mode, chord flag and active, was_active and buffer state.
C11_FailedAddActionKeepsRegistry ==
    [][\A name \in RegistryNames, c \in RegistryCalls :
          RegistryAddAction(name, c[1], c[2], c[3], c[4]) =>
             /\ ( \/ name \in DOMAIN actions
                  \/ c[1] = {} /\ c[2] = {}
                  \/ "nobutton" \in c[2] ) => err'
             /\ err' => actions' = actions
             /\ ~err' => DOMAIN actions' = DOMAIN actions \cup {name}]_vars

\* C11 witness: an add_action call raised while a press-mode action was registered
\* and active inside its buffer window.
C11_Witness ==
    /\ lastOp = "add_action" /\ err
    /\ \E n \in DOMAIN actions :
          /\ actions[n].mode = "press" /\ actions[n].active
          /\ actions[n].was_active /\ actions[n].buffer_remaining > 0

\* ---------------------------------------------------------------------------
\* Properties of RectCollider
\* ---------------------------------------------------------------------------

\* the points of a collider along each axis, both ends included
XSpan(a) == a.x .. (a.x + a.width)
YSpan(a) == a.y .. (a.y + a.height)

\* C12: when a collider that intersects another has been moved by the vector that
\* colliding wrote, colliding returns false for the pair.
C12_PushOutSeparates ==
    stage = "checked" => ~intersecting

\* C13: colliding returns false exactly when the colliders share no point on the x
\* axis or no point on the y axis, so colliders that touch along an edge or at a
\* corner intersect; for a pair that does not intersect the vector is (0, 0).
C13_BoundaryPolicy ==
    stage = "resolved" =>
       /\ intersecting <=> ( /\ XSpan(self_collider) \cap XSpan(other_collider) # {}
                             /\ YSpan(self_collider) \cap YSpan(other_collider) # {} )
       /\ ~intersecting => trans_vec = <<0, 0>>

\* C13 witness: colliding returned true for two colliders that touch at one corner.
C13_Witness ==
    /\ stage = "resolved" /\ intersecting
    /\ self_collider.x + self_collider.width = other_collider.x
    /\ self_collider.y + self_collider.height = other_collider.y

\* ---------------------------------------------------------------------------
\* Properties of the Gamepad instances
\* ---------------------------------------------------------------------------

\* the instances that hold a joystick
ConnectedInstances == {i \in DOMAIN gamepads : gamepads[i] # {}}

\* C14: after every sequence of device events no dispatch has raised, and the list
\* of claimed joystick ids holds one id for every connected instance and no id
\* twice.
C14_ClaimedIdsMatchInstances ==
    /\ ~gp_err
    /\ Len(active_joystick_ids) = Cardinality(ConnectedInstances)
    /\ \A i, j \in DOMAIN active_joystick_ids :
          i # j => active_joystick_ids[i] # active_joystick_ids[j]

\* C15: a dispatched event changes the joystick of at most one instance: a
\* device-added event that of the first disconnected instance, which then holds the
\* new joystick, a device-removed event that of the instance holding the removed
\* joystick, any other event none; and no two instances hold the same joystick.
C15_OneInstancePerEvent ==
    [][Len(gamepads') = Len(gamepads) =>
         LET changed == {i \in DOMAIN gamepads : gamepads'[i] # gamepads[i]}
         IN  /\ Cardinality(changed) <= 1
             /\ \A i \in changed :
                   /\ event'.type \in {"added", "removed"}
                   /\ event'.type = "added" =>
                         /\ gamepads[i] = {} /\ gamepads'[i] = {event'.instance_id}
                         /\ \A j \in 1..(i - 1) : gamepads[j] # {}
                   /\ event'.type = "removed" =>
                         gamepads[i] = {event'.instance_id} /\ gamepads'[i] = {}
             /\ \A i, j \in DOMAIN gamepads' :
                   i # j => gamepads'[i] \cap gamepads'[j] = {}]_vars

\* C15 witness: of two disconnected instances the first one took the joystick of a
\* device-added event and the second one stayed disconnected.
C15_Witness ==
    /\ Len(gamepads) = 2
    /\ event.type = "added"
    /\ gamepads[1] = {event.instance_id}
    /\ gamepads[2] = {}

\* ---------------------------------------------------------------------------
\* Properties of a disconnected gamepad
\* ---------------------------------------------------------------------------

\* the queries of a disconnected gamepad: 0 for every axis, raw or not, and false
\* for every button
InertWhenDisconnected ==
    ~Connected =>
       /\ \A axis \in GpAxes, raw_value \in BOOLEAN : AxisValueOf(axis, raw_value) = 0
       /\ \A button \in AllGpButtons : ~ButtonDownOf(button)

\* C16: in every state where the gamepad is disconnected axis_value is 0 for every
\* axis with and without raw_value and the button query is false for every button,
\* and an Input.update made in such a state leaves keyboard as the dominant source.
C16_DisconnectedIsInert ==
    [][/\ InertWhenDisconnected
       /\ InertWhenDisconnected'
       /\ (UpdateStep /\ ~Connected) => last_input_source' = "keyboard"]_vars

\* C16 witness: the gamepad is disconnected and keyboard is the dominant source
\* while a press-mode action bound to gamepad buttons only still has the buffer of
\* an activation it got from the gamepad.
C16_Witness ==
    /\ ~Connected
    /\ last_input_source = "keyboard"
    /\ \E n \in DOMAIN actions :
          /\ actions[n].mode = "press" /\ ~actions[n].chord
          /\ actions[n].key_codes = {} /\ actions[n].mouse_codes = {}
          /\ actions[n].buffer_remaining > 0

\* ---------------------------------------------------------------------------
\* Properties of remove_all
\* ---------------------------------------------------------------------------

\* the layer bookkeeping that adding the entities of a list to an engine without
\* entities gives: the layer values of the entities in strictly ascending order and
\* for each a bucket with its entities in the order of the list
BookkeepingOf(ents) ==
    /\ \A i \in 1..(Len(layer_indexes) - 1) : layer_indexes[i] < layer_indexes[i + 1]
    /\ Range(layer_indexes) = {LayerOf(e) : e \in Range(ents)}
    /\ DOMAIN display_layers = {LayerOf(e) : e \in Range(ents)}
    /\ \A l \in DOMAIN display_layers :
          display_layers[l] = SelectSeq(ents, LAMBDA e : LayerOf(e) = l)

\* C17: after remove_all there are no entities, no layer buckets and no layer
\* values and render dispatches to nothing; and while only add_entity has changed
\* the collection since the last remove_all, as since init, the bookkeeping is that
\* of the entities added and they are rendered in ascending layer order.
C17_RemoveAllResets ==
    /\ (lastOp = "remove_all" /\ ~err) =>
          /\ entities = <<>> /\ display_layers = <<>> /\ layer_indexes = <<>>
          /\ RenderOrder(layer_indexes, display_layers) = <<>>
    /\ added_since \in {"init", "remove_all"} =>
          /\ BookkeepingOf(entities)
          /\ RenderOrder(layer_indexes, display_layers)
                = ByLayer(entities, {LayerOf(e) : e \in Ents})

\* C17 witness: entities of three layers were added out of layer order after a
\* remove_all and rendered in ascending layer order.
C17_Witness ==
    /\ added_since = "remove_all"
    /\ entities = <<"TestEntity", "Player", "Wall">>
    /\ lastOp = "render" /\ ~err
    /\ calls = Hooks("render", <<"Wall", "Player", "TestEntity">>)

\* ---------------------------------------------------------------------------
\* Properties of _apply_deadzone
\* ---------------------------------------------------------------------------

\* C18: with 0 <= inner < 1 - outer the deadzone function returns 0 for 0 and for
\* every value no farther from 0 than inner, returns the sign of the value for every
\* value at least 1 - outer from 0, returns a magnitude between 0 and 1 that does
\* not decrease when the magnitude of the value grows, and never returns a result
\* of the sign opposite to the value.
C18_DeadzoneShape ==
    LET far == Unit - dz_outer
        sign == IF dz_value >= 0 THEN 1 ELSE -1
    IN  /\ dz_value = 0 => dz_result = 0
        /\ Abs(dz_value) <= dz_inner => dz_result = 0
        /\ Abs(dz_value) >= far => dz_result = sign * Unit
        /\ 0 <= Abs(dz_result) /\ Abs(dz_result) <= Unit
        /\ Abs(dz_prev[1]) <= Abs(dz_value) => Abs(dz_prev[2]) <= Abs(dz_result)
        /\ dz_result # 0 => (dz_result > 0 <=> dz_value > 0)

\* C18 witness: with the deadzones of Gamepad a negative value between the
\* thresholds gave a negative result between 0 and -1, after a smaller positive
\* value gave a smaller result.
C18_Witness ==
    /\ dz_inner = DeadzoneInner /\ dz_outer = DeadzoneOuter
    /\ dz_value = -500 /\ dz_result = -470
    /\ dz_prev = <<250, 176>>

\* ---------------------------------------------------------------------------
\* Properties of the sweep and the purge of Engine.update
\* ---------------------------------------------------------------------------

Triple(a) == <<a.active, a.was_active, a.buffer_remaining>>

\* the transition table of the claim for pressed state p and frame time dt
PressTable(a, p, dt, duration) ==
    CASE p /\ a.buffer_remaining > 0 -> <<TRUE, a.was_active, a.buffer_remaining - dt>>
      [] p /\ a.buffer_remaining <= 0 /\ a.was_active ->
            <<FALSE, a.was_active, a.buffer_remaining>>
      [] p /\ a.buffer_remaining <= 0 /\ ~a.was_active -> <<TRUE, TRUE, duration>>
      [] ~p -> <<FALSE, FALSE, a.buffer_remaining>>

\* C20: every Input.update changes active, was_active and buffer_remaining of every
\* press-mode action as the table says for the pressed state of the frame and the
\* frame time, and an action that was inactive after an update in which it counted
\* as pressed is inactive after the next update in which it counts as pressed.
C20_PressTransition ==
    [][UpdateStep =>
         \E dt \in 1..MaxDt :
            \A n \in DOMAIN actions :
               LET a == actions[n]
                   b == actions'[n]
               IN  a.mode = "press" =>
                      /\ Triple(b) = PressTable(a, b.pressed, dt, buffer_duration)
                      /\ (a.pressed /\ ~a.active /\ b.pressed) => ~b.active]_vars

\* C20 witness: a press-mode action is inactive while it counts as pressed, after
\* its buffer has run down below 0.
C20_Witness ==
    \E n \in DOMAIN actions :
       /\ actions[n].mode = "press"
       /\ actions[n].pressed /\ actions[n].was_active /\ ~actions[n].active
       /\ actions[n].buffer_remaining < 0

\* ---------------------------------------------------------------------------
\* Properties of the frame time
\* ---------------------------------------------------------------------------

\* C21: once the engine is initialized, delta_time and delta_time_raw return the
\* frame time of the last Engine.update, with and without the time scale: neither
\* call raises.
C21_DeltaTimeReturns ==
    (initialized /\ lastOp \in {"delta_time", "delta_time_raw"}) => ~err

\* ---------------------------------------------------------------------------
\* Properties of the translation vector
\* ---------------------------------------------------------------------------

\* twice the centre of a collider on each axis
CentreX2(a) == 2 * a.x + a.width
CentreY2(a) == 2 * a.y + a.height

\* twice the overlap on each axis: the half-size sum minus the centre distance
OverlapX2(a, b) == (a.width + b.width) - Abs(CentreX2(b) - CentreX2(a))
OverlapY2(a, b) == (a.height + b.height) - Abs(CentreY2(b) - CentreY2(a))

\* C22: the vector colliding writes for an intersecting pair lies along x with the
\* magnitude of the x overlap when that overlap is not greater than the y overlap,
\* and else along y with the magnitude of the y overlap; it is positive when the
\* centre of this collider is at the greater coordinate and negative when it is at
\* the smaller or the same one.
C22_VectorAlongSmallerOverlap ==
    (stage = "resolved" /\ intersecting) =>
        LET a == self_collider
            b == other_collider
            mx2 == OverlapX2(a, b)
            my2 == OverlapY2(a, b)
        IN  IF mx2 <= my2
            THEN /\ trans_vec[2] = 0
                 /\ 2 * trans_vec[1] = IF CentreX2(a) > CentreX2(b) THEN mx2 ELSE 0 - mx2
            ELSE /\ trans_vec[1] = 0
                 /\ 2 * trans_vec[2] = IF CentreY2(a) > CentreY2(b) THEN my2 ELSE 0 - my2

\* C22 witness: two colliders of the same place and size, as wide as high: the
\* overlaps tie, the centres coincide, and the vector points along x to the
\* negative side.
C22_Witness ==
    /\ stage = "resolved" /\ intersecting
    /\ self_collider = other_collider
    /\ self_collider.width = self_collider.height
    /\ trans_vec = <<0 - self_collider.width, 0>>

\* C23: whenever colliding returns True the vector it has written is not the zero
\* vector.
C23_VectorNotZero ==
    (stage = "resolved" /\ intersecting) => trans_vec # <<0, 0>>

\* ---------------------------------------------------------------------------
\* Properties of the Player
\* ---------------------------------------------------------------------------

\* the frame began with a jump: jumps were left and the jump action was active
JumpFrame == jumps_before > 0 /\ jump_active

Kept == <<initialized, entities, display_layers, layer_indexes, markForRemove>>

\* C25: get_all, get_if and get_tagged change nothing the engine keeps and return
\* the matching entities in the order they were added; and when the caller appends
\* to, removes from or reverses the list it got, the flat list, the buckets, the
\* layer values and the order of render stay as they are.
C25_QueriesReadOnly ==
    [][/\ caller' = "got" =>
            /\ Kept' = Kept
            /\ returned' = SelectSeq(entities, LAMBDA e : e \in asked')
       /\ caller' = "changed" =>
            /\ Kept' = Kept
            /\ RenderOrder(layer_indexes', display_layers')
                  = RenderOrder(layer_indexes, display_layers)]_vars

\* C25 witness: the caller has changed the list get_all returned, which held three
\* entities, and the engine has rendered its three entities afterwards.
C25_Witness ==
    /\ lastOp = "render" /\ ~err
    /\ asked = Ents
    /\ returned # entities
    /\ entities = <<"TestEntity", "Player", "Wall">>
    /\ Dispatched("render") = <<"Wall", "Player", "TestEntity">>

\* ---------------------------------------------------------------------------
\* Properties of Engine.update with entities that call the engine
\* ---------------------------------------------------------------------------

\* C26: among the hooks one Engine.update dispatches, an update of an entity does
\* not come after the on_remove of that entity unless the entity was added again
\* in between, and render goes to entities of the engine only.
C26_NoDispatchAfterRemove ==
    /\ lastOp = "update" =>
          \A i \in 1..Len(calls) : \A j \in (i + 1)..Len(calls) :
             (calls[i][1] = "on_remove" /\ calls[j] = <<"update", calls[i][2]>>) =>
                \E k \in (i + 1)..(j - 1) : calls[k] = <<"on_add", calls[i][2]>>
    /\ lastOp = "render" => Range(Dispatched("render")) \subseteq Range(entities)

\* C27: one Engine.update dispatches update to entities that were in the engine
\* when it began, each at most once for every place it had in the flat list then.
C27_SweepVisitsInitialEntities ==
    lastOp = "update" =>
        \A e \in Ents : Count(Dispatched("update"), e) <= Count(began, e)

\* ---------------------------------------------------------------------------
\* Properties of actions across input sources and holds
\* ---------------------------------------------------------------------------

\* C28: after Input.update an action with no binding for the dominant input source
\* is inactive, whatever its mode and chord flag.
C28_UnboundActionInactive ==
    [][UpdateStep =>
          \A n \in DOMAIN actions :
             BindingsFor(actions[n], last_input_source') = {} => ~actions'[n].active]_vars

\* the action has a binding for each input source unless it is no chord
BoundForSources(a) ==
    \/ ~a.chord
    \/ BindingsFor(a, "keyboard") # {} /\ BindingsFor(a, "gamepad") # {}

\* C29: with a buffer duration above 0, a press-mode action that is active after an
\* Input.update with its binding down is either in the press frame of the hold,
\* which opens one buffer window of the full duration, or in a later frame of the
\* hold counting that window down; the remaining buffer is above 0 only while
\* was_active is true. Frames after a buffer reset by Input.active and chord
\* actions without a binding for one of the sources are left out.
C29_HoldActiveOneWindow ==
    [][UpdateStep =>
          \A n \in DOMAIN actions :
             (/\ actions[n].mode = "press" /\ buffer_duration > 0 /\ ~actions[n].queried
              /\ BoundForSources(actions[n])) =>
                /\ (actions'[n].pressed /\ actions'[n].active) =>
                      IF actions[n].pressed
                      THEN actions[n].was_active /\ actions[n].buffer_remaining > 0
                      ELSE actions'[n].buffer_remaining = buffer_duration
                /\ actions'[n].buffer_remaining > 0 => actions'[n].was_active]_vars

\* C30: a press-mode action goes from inactive to active at most once while its
\* keyboard and mouse binding stays down, whatever the dominant input source does
\* in the meantime.
C30_OneActivationPerHold ==
    \A n \in DOMAIN actions :
       actions[n].mode = "press" => hold_activations[n] <= 1

\* ---------------------------------------------------------------------------
\* Properties of the layer bookkeeping
\* ---------------------------------------------------------------------------

\* C31: in every state the layer index list is strictly ascending, its values are
\* the keys of the layer-bucket map, and every entity is in the bucket of its own
\* display_layer as often as it is in the flat list and in no other bucket.
C31_LayerBookkeeping ==
    /\ \A i \in 1..Len(layer_indexes) : \A j \in (i + 1)..Len(layer_indexes) :
          layer_indexes[i] < layer_indexes[j]
    /\ Range(layer_indexes) = DOMAIN display_layers
    /\ \A e \in Ents :
          /\ Count(entities, e) > 0 => LayerOf(e) \in DOMAIN display_layers
          /\ \A l \in DOMAIN display_layers :
                Count(display_layers[l], e) =
                   IF l = LayerOf(e) THEN Count(entities, e) ELSE 0

\* a removal has left an empty bucket beside a bucket that holds one entity twice
C31_Witness ==
    /\ lastOp \in {"remove_if", "remove_tagged", "update"}
    /\ ~err
    /\ Len(layer_indexes) >= 2
    /\ \E l \in DOMAIN display_layers : display_layers[l] = <<>>
    /\ \E e \in Ents : Count(entities, e) = 2

====
